---- MODULE Spec2Model ----
(***************************************************************************)
(* Model of isar-core's object property accessors                          *)
(* (src/src/object/property.rs): a Property (data_type, offset) read out   *)
(* of an immutable object blob.                                            *)
(*                                                                         *)
(* Conventions                                                             *)
(*  - A blob is a sequence of bytes (0..255); Rust index i is TLA index    *)
(*    i + 1.  `base` is the address of byte 0 of the blob.                 *)
(*  - The target is little-endian with a 64-bit usize, so reinterpreting   *)
(*    payload bytes as i32/i64/f32/f64/u32 is a little-endian decoding and *)
(*    usize arithmetic on u32 operands cannot wrap.                        *)
(*  - TLC integers are 32 bits wide, so wider values are positional        *)
(*    numerals of 16-bit limbs, most significant limb first:               *)
(*      u32  <<hi, lo>>              hi, lo in 0..65535                    *)
(*      i64  <<h, l2, l1, l0>>       h in -32768..32767 (carries the sign) *)
(*    and floats are decoded into their IEEE-754 fields                    *)
(*      f32  [sign, exp (8 bits), mant (23 bits)]                          *)
(*      f64  [sign, exp (11 bits), mant <<4 bits, 16, 16, 16>>]            *)
(*  - A call either panics or returns: Panic / Ret(v).  Option<T> is       *)
(*    None / Some(v).                                                      *)
(*                                                                         *)
(* The module also models isar_q_delete_first / isar_q_delete_first_async  *)
(* (src/dart-ffi/src/query.rs) and the other writers of a `deleted` flag,  *)
(* isar_delete / isar_delete_async (src/dart-ffi/src/crud.rs), in a        *)
(* specification of its own.                                               *)
(***************************************************************************)
EXTENDS Integers, Sequences, FiniteSets, TLC

\* the accessor layer: a blob, its address, a property, the last call
VARIABLES object, base, property, op, result

\* the delete-first query entry points (src/dart-ffi/src/query.rs): the
\* caller's flag, its value before the call, the answers the predicate has
\* given so far, where the call stands and how delete_while ended
VARIABLES deleted, deleted_before, answers, pc, variant, outcome

\* what else uses the same flag: the flag as the call left it when it ended,
\* the earlier delete-first calls that are still in flight, the queued
\* isar_delete_async jobs, and whether the call has been the only writer of
\* the flag since it began
VARIABLES deleted_after, earlier, delete_jobs, exclusive

accessor_vars == <<object, base, property, op, result>>

query_vars ==
    <<deleted, deleted_before, answers, pc, variant, outcome,
      deleted_after, earlier, delete_jobs, exclusive>>

vars == <<accessor_vars, query_vars>>

(***************************************************************************)
(* DataType catalog                                                        *)
(***************************************************************************)
StaticTypes == {"Bool", "Int", "Float", "Long", "Double"}

DynamicTypes == {"String", "Bytes", "IntList", "LongList", "FloatList",
                 "DoubleList", "BoolList", "StringList", "BytesList"}

DataType == StaticTypes \cup DynamicTypes

is_dynamic(t) == t \in DynamicTypes

(***************************************************************************)
(* Call outcomes                                                           *)
(***************************************************************************)
Panic == [kind |-> "panic", value |-> <<>>]
\* the process is aborted (a failed allocation): no unwinding, no result
Abort == [kind |-> "abort", value |-> <<>>]

Ret(v) == [kind |-> "ok", value |-> v]

None == [some |-> FALSE, v |-> <<>>]

Some(x) == [some |-> TRUE, v |-> x]

(***************************************************************************)
(* Slices: object[a..b] panics unless a <= b <= object.len()               *)
(***************************************************************************)
SliceOk(obj, a, b) == a <= b /\ b <= Len(obj)

Slice(obj, a, b) == [k \in 1..(b - a) |-> obj[a + k]]

(***************************************************************************)
(* Little-endian decoders (from_le_bytes / reinterpretation on an LE       *)
(* target).  `bytes` is a sequence of exactly size_of(T) bytes.            *)
(***************************************************************************)
\* faulty variant: reads the four bytes most significant first
i32_from_be_bytes(bytes) ==
    bytes[4] + 256 * bytes[3] + 65536 * bytes[2]
      + 16777216 * (IF bytes[1] >= 128 THEN bytes[1] - 256 ELSE bytes[1])

i32_from_le_bytes(bytes) ==
    bytes[1] + 256 * bytes[2] + 65536 * bytes[3]
      + 16777216 * (IF bytes[4] >= 128 THEN bytes[4] - 256 ELSE bytes[4])

u32_from_le_bytes(bytes) ==
    <<bytes[3] + 256 * bytes[4], bytes[1] + 256 * bytes[2]>>

i64_from_le_bytes(bytes) ==
    <<bytes[7] + 256 * (IF bytes[8] >= 128 THEN bytes[8] - 256 ELSE bytes[8]),
      bytes[5] + 256 * bytes[6],
      bytes[3] + 256 * bytes[4],
      bytes[1] + 256 * bytes[2]>>

f32_from_le_bytes(bytes) ==
    [sign |-> bytes[4] \div 128,
     exp  |-> (bytes[4] % 128) * 2 + (bytes[3] \div 128),
     mant |-> (bytes[3] % 128) * 65536 + bytes[2] * 256 + bytes[1]]

f64_from_le_bytes(bytes) ==
    [sign |-> bytes[8] \div 128,
     exp  |-> (bytes[8] % 128) * 16 + (bytes[7] \div 16),
     mant |-> <<bytes[7] % 16,
                bytes[5] + 256 * bytes[6],
                bytes[3] + 256 * bytes[4],
                bytes[1] + 256 * bytes[2]>>]

\* faulty variant: compares with the bit pattern of the NULL_FLOAT constant only
f32_is_nan_canonical(f) == f = [sign |-> 0, exp |-> 255, mant |-> 4194304]

f32_is_nan(f) == f.exp = 255 /\ f.mant # 0

f64_is_nan(f) == f.exp = 2047 /\ f.mant # <<0, 0, 0, 0>>

(***************************************************************************)
(* Property constants                                                      *)
(***************************************************************************)
NULL_INT == -2147483647 - 1

NULL_LONG == <<-32768, 0, 0, 0>>

FALSE_BOOL == 0

TRUE_BOOL == 1

NULL_BOOL == 2

(***************************************************************************)
(* Element types of get_list::<T> and mem::size_of::<T>()                  *)
(***************************************************************************)
size_of(T) ==
    CASE T = "u8"  -> 1
      [] T = "i32" -> 4
      [] T = "f32" -> 4
      [] T = "i64" -> 8
      [] T = "f64" -> 8
      [] T = "DataPosition" -> 8

from_le(T, bytes) ==
    CASE T = "u8"  -> bytes[1]
      [] T = "i32" -> i32_from_le_bytes(bytes)
      [] T = "f32" -> f32_from_le_bytes(bytes)
      [] T = "i64" -> i64_from_le_bytes(bytes)
      [] T = "f64" -> f64_from_le_bytes(bytes)
      [] T = "DataPosition" ->
            [offset |-> u32_from_le_bytes(Slice(bytes, 0, 4)),
             length |-> u32_from_le_bytes(Slice(bytes, 4, 8))]

U32Zero == <<0, 0>>

\* faulty variant: takes the length field, not the offset field, as the null marker
DataPosition_is_null_by_length(dp) == dp.length = U32Zero

DataPosition_is_null(dp) == dp.offset = U32Zero

\* faulty variant: views the bytes as values of T without the assertion
transmute_unverified(T, bytes, addr) ==
    Ret([k \in 1..(Len(bytes) \div size_of(T)) |->
           from_le(T, Slice(bytes, (k - 1) * size_of(T), k * size_of(T)))])

(***************************************************************************)
(* transmute_verify_alignment::<T>(bytes): `addr` is bytes.as_ptr().       *)
(* Asserts addr % size_of(T) = 0, then views the bytes as                  *)
(* bytes.len() / size_of(T) values of T.                                   *)
(***************************************************************************)
transmute_verify_alignment(T, bytes, addr) ==
    IF addr % size_of(T) # 0
    THEN Panic
    ELSE Ret([k \in 1..(Len(bytes) \div size_of(T)) |->
                from_le(T, Slice(bytes, (k - 1) * size_of(T), k * size_of(T)))])

(***************************************************************************)
(* get_list_position(object, offset): the DataPosition at `offset`.        *)
(***************************************************************************)
get_list_position(obj, b, offset) ==
    IF ~SliceOk(obj, offset, offset + 8)
    THEN Panic
    ELSE LET t == transmute_verify_alignment("DataPosition",
                      Slice(obj, offset, offset + 8), b + offset)
         IN  IF t.kind = "panic" THEN Panic ELSE Ret(t.value[1])

(***************************************************************************)
(* usize arithmetic on values widened from u32 (<<hi, lo>>).  Blobs are    *)
(* far shorter than 2^16 bytes, so offset + length * type_size exceeds     *)
(* object.len() whenever either operand has a non-zero high limb.          *)
(***************************************************************************)
RangeFits(dp, type_size, obj) ==
    /\ dp.offset[1] = 0
    /\ dp.length[1] = 0
    /\ dp.offset[2] + dp.length[2] * type_size <= Len(obj)

\* faulty variant: takes header.length as a byte count, not an element count
get_list_length_in_bytes(T, obj, b, offset) ==
    LET pos == get_list_position(obj, b, offset)
    IN  IF pos.kind = "panic" THEN Panic
        ELSE IF DataPosition_is_null(pos.value) THEN Ret(None)
        ELSE LET dp == pos.value
             IN  IF ~RangeFits(dp, 1, obj)
                 THEN Panic
                 ELSE LET o == dp.offset[2]
                          t == transmute_verify_alignment(T,
                                   Slice(obj, o, o + dp.length[2]), b + o)
                      IN  IF t.kind = "panic" THEN Panic
                          ELSE Ret(Some(t.value))

\* faulty variant: takes a zero length for a null list as well
get_list_empty_is_null(T, obj, b, offset) ==
    LET pos == get_list_position(obj, b, offset)
    IN  IF pos.kind = "panic" THEN Panic
        ELSE IF DataPosition_is_null(pos.value) \/ pos.value.length = U32Zero
        THEN Ret(None)
        ELSE LET type_size == size_of(T)
                 dp == pos.value
             IN  IF ~RangeFits(dp, type_size, obj)
                 THEN Panic
                 ELSE LET o == dp.offset[2]
                          len_in_bytes == dp.length[2] * type_size
                          t == transmute_verify_alignment(T,
                                   Slice(obj, o, o + len_in_bytes), b + o)
                      IN  IF t.kind = "panic" THEN Panic
                          ELSE Ret(Some(t.value))

(***************************************************************************)
(* get_list::<T>(object, offset)                                           *)
(***************************************************************************)
get_list(T, obj, b, offset) ==
    LET pos == get_list_position(obj, b, offset)
    IN  IF pos.kind = "panic" THEN Panic
        ELSE IF DataPosition_is_null(pos.value) THEN Ret(None)
        ELSE LET type_size == size_of(T)
                 dp == pos.value
             IN  IF ~RangeFits(dp, type_size, obj)
                 THEN Panic
                 ELSE LET o == dp.offset[2]
                          len_in_bytes == dp.length[2] * type_size
                          t == transmute_verify_alignment(T,
                                   Slice(obj, o, o + len_in_bytes), b + o)
                      IN  IF t.kind = "panic" THEN Panic
                          ELSE Ret(Some(t.value))

(***************************************************************************)
(* std::str::from_utf8 accepts exactly the well-formed UTF-8 sequences     *)
(* (no overlong forms, no surrogates, nothing above U+10FFFF).             *)
(***************************************************************************)
IsCont(x) == x >= 128 /\ x <= 191

RECURSIVE utf8_valid_from(_, _)
utf8_valid_from(bytes, i) ==
    IF i > Len(bytes) THEN TRUE
    ELSE LET x == bytes[i]
             n == Len(bytes)
         IN  IF x < 128 THEN utf8_valid_from(bytes, i + 1)
             ELSE IF x >= 194 /\ x <= 223
             THEN /\ i + 1 <= n
                  /\ IsCont(bytes[i + 1])
                  /\ utf8_valid_from(bytes, i + 2)
             ELSE IF x >= 224 /\ x <= 239
             THEN /\ i + 2 <= n
                  /\ CASE x = 224 -> bytes[i + 1] >= 160 /\ bytes[i + 1] <= 191
                       [] x = 237 -> bytes[i + 1] >= 128 /\ bytes[i + 1] <= 159
                       [] OTHER   -> IsCont(bytes[i + 1])
                  /\ IsCont(bytes[i + 2])
                  /\ utf8_valid_from(bytes, i + 3)
             ELSE IF x >= 240 /\ x <= 244
             THEN /\ i + 3 <= n
                  /\ CASE x = 240 -> bytes[i + 1] >= 144 /\ bytes[i + 1] <= 191
                       [] x = 244 -> bytes[i + 1] >= 128 /\ bytes[i + 1] <= 143
                       [] OTHER   -> IsCont(bytes[i + 1])
                  /\ IsCont(bytes[i + 2])
                  /\ IsCont(bytes[i + 3])
                  /\ utf8_valid_from(bytes, i + 4)
             ELSE FALSE

from_utf8_ok(bytes) == utf8_valid_from(bytes, 1)

(***************************************************************************)
(* Static getters                                                          *)
(***************************************************************************)
get_int(p, obj, b) ==
    IF p.data_type # "Int" THEN Panic
    ELSE IF ~SliceOk(obj, p.offset, p.offset + 4) THEN Panic
    ELSE Ret(i32_from_le_bytes(Slice(obj, p.offset, p.offset + 4)))

get_long(p, obj, b) ==
    IF p.data_type # "Long" THEN Panic
    ELSE IF ~SliceOk(obj, p.offset, p.offset + 8) THEN Panic
    ELSE Ret(i64_from_le_bytes(Slice(obj, p.offset, p.offset + 8)))

get_float(p, obj, b) ==
    IF p.data_type # "Float" THEN Panic
    ELSE IF ~SliceOk(obj, p.offset, p.offset + 4) THEN Panic
    ELSE Ret(f32_from_le_bytes(Slice(obj, p.offset, p.offset + 4)))

get_double(p, obj, b) ==
    IF p.data_type # "Double" THEN Panic
    ELSE IF ~SliceOk(obj, p.offset, p.offset + 8) THEN Panic
    ELSE Ret(f64_from_le_bytes(Slice(obj, p.offset, p.offset + 8)))

\* faulty variant: only the canonical NULL_BOOL byte is null, any other is true
get_bool_canonical_null(p, obj, b) ==
    IF p.data_type # "Bool" THEN Panic
    ELSE IF ~(p.offset < Len(obj)) THEN Panic
    ELSE LET x == obj[p.offset + 1]
         IN  IF x = FALSE_BOOL THEN Ret(Some(FALSE))
             ELSE IF x = NULL_BOOL THEN Ret(None)
             ELSE Ret(Some(TRUE))

get_bool(p, obj, b) ==
    IF p.data_type # "Bool" THEN Panic
    ELSE IF ~(p.offset < Len(obj)) THEN Panic
    ELSE LET x == obj[p.offset + 1]
         IN  IF x = FALSE_BOOL THEN Ret(Some(FALSE))
             ELSE IF x = TRUE_BOOL THEN Ret(Some(TRUE))
             ELSE Ret(None)

(***************************************************************************)
(* Dynamic getters                                                         *)
(***************************************************************************)
\* faulty variant: resolves the payload range before answering
get_length_resolving(p, obj, b) ==
    IF ~is_dynamic(p.data_type) THEN Panic
    ELSE LET pos == get_list_position(obj, b, p.offset)
         IN  IF pos.kind = "panic" THEN Panic
             ELSE IF DataPosition_is_null(pos.value) THEN Ret(None)
             ELSE IF ~RangeFits(pos.value, 1, obj) THEN Panic
             ELSE Ret(Some(pos.value.length))

get_length(p, obj, b) ==
    IF ~is_dynamic(p.data_type) THEN Panic
    ELSE LET pos == get_list_position(obj, b, p.offset)
         IN  IF pos.kind = "panic" THEN Panic
             ELSE IF ~DataPosition_is_null(pos.value)
                  THEN Ret(Some(pos.value.length))
                  ELSE Ret(None)

get_string(p, obj, b) ==
    IF p.data_type # "String" THEN Panic
    ELSE LET r == get_list("u8", obj, b, p.offset)
         IN  IF r.kind = "panic" THEN Panic
             ELSE IF ~r.value.some THEN Ret(None)
             ELSE IF ~from_utf8_ok(r.value.v) THEN Panic
             ELSE Ret(Some(r.value.v))

get_bytes(p, obj, b) ==
    IF p.data_type # "Bytes" THEN Panic
    ELSE get_list("u8", obj, b, p.offset)

get_int_list(p, obj, b) ==
    IF p.data_type # "IntList" THEN Panic
    ELSE get_list("i32", obj, b, p.offset)

get_long_list(p, obj, b) ==
    IF p.data_type # "LongList" THEN Panic
    ELSE get_list("i64", obj, b, p.offset)

get_float_list(p, obj, b) ==
    IF p.data_type # "FloatList" THEN Panic
    ELSE get_list("f32", obj, b, p.offset)

get_double_list(p, obj, b) ==
    IF p.data_type # "DoubleList" THEN Panic
    ELSE get_list("f64", obj, b, p.offset)

(***************************************************************************)
(* get_bytes_list: the entries are collected into a Vec whose capacity     *)
(* (outer.length entries of 16 bytes each) is reserved before the first    *)
(* entry is read.  Nothing is reserved for a length of 0; any other        *)
(* reservation succeeds or fails with the memory the process has left,     *)
(* and a failed reservation aborts the process instead of                  *)
(* unwinding: alloc_ok is that outcome.  Then one get_list::<u8> per i in  *)
(* 0..outer.length, each at outer.offset + i; a panic in any of them       *)
(* aborts the call.  The first read past the end of the blob panics, so an *)
(* outer offset with a non-zero high limb, or more entries than the blob   *)
(* has bytes, panics before the u32 addition could wrap.                   *)
(***************************************************************************)
vec_reserve_may_fail(n) == n # U32Zero

get_bytes_list(p, obj, b, alloc_ok) ==
    LET pos == get_list_position(obj, b, p.offset)
    IN  IF pos.kind = "panic" THEN Panic
        ELSE IF DataPosition_is_null(pos.value) THEN Ret(None)
        ELSE LET positions_offset == pos.value
                 n == positions_offset.length
             IN  IF n = U32Zero THEN Ret(Some(<<>>))
                 ELSE IF vec_reserve_may_fail(n) /\ ~alloc_ok THEN Abort
                 ELSE IF positions_offset.offset[1] # 0 \/ n[1] # 0
                         \/ n[2] > Len(obj)
                 THEN Panic
                 ELSE LET lists == [k \in 1..n[2] |->
                                      get_list("u8", obj, b,
                                        positions_offset.offset[2] + (k - 1))]
                      IN  IF \E k \in 1..n[2] : lists[k].kind = "panic"
                          THEN Panic
                          ELSE Ret(Some([k \in 1..n[2] |-> lists[k].value]))

(***************************************************************************)
(* Null predicate                                                          *)
(***************************************************************************)
is_null(p, obj, b) ==
    CASE p.data_type = "Int" ->
           LET r == get_int(p, obj, b)
           IN  IF r.kind = "panic" THEN Panic ELSE Ret(r.value = NULL_INT)
      [] p.data_type = "Long" ->
           LET r == get_long(p, obj, b)
           IN  IF r.kind = "panic" THEN Panic ELSE Ret(r.value = NULL_LONG)
      [] p.data_type = "Float" ->
           LET r == get_float(p, obj, b)
           IN  IF r.kind = "panic" THEN Panic ELSE Ret(f32_is_nan(r.value))
      [] p.data_type = "Double" ->
           LET r == get_double(p, obj, b)
           IN  IF r.kind = "panic" THEN Panic ELSE Ret(f64_is_nan(r.value))
      [] p.data_type = "Bool" ->
           LET r == get_bool(p, obj, b)
           IN  IF r.kind = "panic" THEN Panic ELSE Ret(~r.value.some)
      [] OTHER ->
           LET r == get_length(p, obj, b)
           IN  IF r.kind = "panic" THEN Panic ELSE Ret(~r.value.some)

(***************************************************************************)
(* Static raw byte view                                                    *)
(***************************************************************************)
get_static_raw(p, obj, b) ==
    LET n == CASE p.data_type \in {"Int", "Float"} -> 4
               [] p.data_type = "Bool" -> 0
               [] OTHER -> 8
    IN  IF ~SliceOk(obj, p.offset, p.offset + n) THEN Panic
        ELSE Ret(Slice(obj, p.offset, p.offset + n))

(***************************************************************************)
(* Inputs.  A blob is produced once by a writer and read-only afterwards;  *)
(* the reader may also meet corrupt or hand-crafted blobs.  The blobs      *)
(* below hold `property.offset` filler bytes, then the property's own      *)
(* bytes (a primitive, or a DataPosition followed by a payload region).    *)
(***************************************************************************)
MaxLength == 3

TailLen == 32

Filler == 170

PropOffsets == {0, 4, 8}

BaseAddrs == {64, 68}

Properties == [data_type : DataType, offset : PropOffsets]

u32_to_le_bytes(u) ==
    <<u[2] % 256, u[2] \div 256, u[1] % 256, u[1] \div 256>>

Pad(n) == [k \in 1..n |-> Filler]

Words ==
    { <<0, 0, 0, 0>>,         \* 0, +0.0
      <<0, 0, 0, 128>>,       \* i32::MIN, -0.0, high word of i64::MIN
      <<1, 0, 0, 128>>,       \* i32::MIN + 1
      <<255, 255, 255, 127>>, \* i32::MAX, a NaN
      <<255, 255, 255, 255>>, \* -1, a negative NaN
      <<123, 0, 0, 0>>,       \* 123
      <<8, 0, 0, 0>>,         \* 8
      <<0, 0, 128, 127>>,     \* f32 +inf
      <<1, 0, 128, 127>>,     \* f32 signalling NaN
      <<0, 0, 192, 255>>,     \* f32 negative quiet NaN
      <<0, 0, 240, 127>>,     \* high word of f64 +inf
      <<0, 0, 240, 255>>,     \* high word of f64 -inf
      <<0, 0, 248, 127>>,     \* high word of the f64 quiet NaN
      <<0, 0, 40, 65>> }      \* 10.5f32

StaticValues(t) ==
    CASE t = "Bool" -> {<<v>> : v \in 0..255}
      [] t \in {"Int", "Float"} -> Words
      [] t \in {"Long", "Double"} -> {lo \o hi : lo \in Words, hi \in Words}

\* a blob is either complete or cut one byte short of the value's end
StaticObjects(p) ==
    LET full == {Pad(p.offset) \o v : v \in StaticValues(p.data_type)}
    IN  full \cup {SubSeq(f, 1, Len(f) - 1) : f \in full}

HeaderOffsets(o) ==
    { <<0, 0>>, <<0, 1>>, <<0, o + 8>>, <<0, o + 9>>, <<0, o + 12>>,
      <<0, o + 16>>, <<0, o + TailLen>>, <<0, o + 8 + TailLen>>,
      <<0, o + 9 + TailLen>>,
      <<1, o + 8>>, <<32768, 0>> }

HeaderLengths == {<<0, n>> : n \in 0..MaxLength} \cup {<<1, 0>>}

ZeroFill(bytes) == bytes \o [k \in 1..(TailLen - Len(bytes)) |-> 0]

\* payload regions: the first TailLen bytes after the header at offset o
Tails(o) ==
    { ZeroFill(<<>>),
      ZeroFill(<<5, 0, 0, 0, 6, 0, 0, 0, 7, 0, 0, 0, 0, 0, 0, 128,
                 255, 255, 255, 255, 0, 0, 0, 128>>),
      ZeroFill(<<104, 101, 108, 108, 111, 195, 169, 255,
                 240, 144, 128, 128, 237, 160, 128, 192, 128>>),
      ZeroFill(<<0, 0, 40, 65, 0, 0, 192, 127, 0, 0, 0, 0, 0, 0, 37, 64,
                 1, 0, 0, 0, 0, 0, 240, 127>>),
      ZeroFill(u32_to_le_bytes(<<0, o + 32>>) \o u32_to_le_bytes(<<0, 2>>)
               \o u32_to_le_bytes(<<0, 0>>) \o u32_to_le_bytes(<<0, 5>>)
               \o u32_to_le_bytes(<<0, o + 34>>) \o u32_to_le_bytes(<<0, 0>>)
               \o <<11, 22, 33, 44, 55, 66, 77, 88>>) }

DynamicObjects(p) ==
    { Pad(p.offset) \o u32_to_le_bytes(off) \o u32_to_le_bytes(len) \o tail :
        off \in HeaderOffsets(p.offset), len \in HeaderLengths,
        tail \in Tails(p.offset) }

Objects(p) ==
    IF is_dynamic(p.data_type) THEN DynamicObjects(p) ELSE StaticObjects(p)

NoResult == [kind |-> "none", value |-> <<>>]

\* no query call is in progress
QueryIdle ==
    /\ deleted = FALSE
    /\ deleted_before = FALSE
    /\ answers = <<>>
    /\ pc = "none"
    /\ variant = "none"
    /\ outcome = "none"
    /\ deleted_after = FALSE
    /\ earlier = 0
    /\ delete_jobs = 0
    /\ exclusive = TRUE

Init ==
    /\ property \in Properties
    /\ object \in Objects(property)
    /\ base \in BaseAddrs
    /\ op = "none"
    /\ result = NoResult
    /\ QueryIdle

(***************************************************************************)
(* One action per accessor: the caller applies it to (property, object).   *)
(* The blob and the property are immutable.                                *)
(***************************************************************************)
IsNull ==
    /\ op' = "is_null"
    /\ result' = is_null(property, object, base)
    /\ UNCHANGED <<object, base, property>>
    /\ UNCHANGED query_vars

GetInt ==
    /\ op' = "get_int"
    /\ result' = get_int(property, object, base)
    /\ UNCHANGED <<object, base, property>>
    /\ UNCHANGED query_vars

GetLong ==
    /\ op' = "get_long"
    /\ result' = get_long(property, object, base)
    /\ UNCHANGED <<object, base, property>>
    /\ UNCHANGED query_vars

GetFloat ==
    /\ op' = "get_float"
    /\ result' = get_float(property, object, base)
    /\ UNCHANGED <<object, base, property>>
    /\ UNCHANGED query_vars

GetDouble ==
    /\ op' = "get_double"
    /\ result' = get_double(property, object, base)
    /\ UNCHANGED <<object, base, property>>
    /\ UNCHANGED query_vars

GetBool ==
    /\ op' = "get_bool"
    /\ result' = get_bool(property, object, base)
    /\ UNCHANGED <<object, base, property>>
    /\ UNCHANGED query_vars

GetLength ==
    /\ op' = "get_length"
    /\ result' = get_length(property, object, base)
    /\ UNCHANGED <<object, base, property>>
    /\ UNCHANGED query_vars

GetString ==
    /\ op' = "get_string"
    /\ result' = get_string(property, object, base)
    /\ UNCHANGED <<object, base, property>>
    /\ UNCHANGED query_vars

GetBytes ==
    /\ op' = "get_bytes"
    /\ result' = get_bytes(property, object, base)
    /\ UNCHANGED <<object, base, property>>
    /\ UNCHANGED query_vars

GetIntList ==
    /\ op' = "get_int_list"
    /\ result' = get_int_list(property, object, base)
    /\ UNCHANGED <<object, base, property>>
    /\ UNCHANGED query_vars

GetLongList ==
    /\ op' = "get_long_list"
    /\ result' = get_long_list(property, object, base)
    /\ UNCHANGED <<object, base, property>>
    /\ UNCHANGED query_vars

GetFloatList ==
    /\ op' = "get_float_list"
    /\ result' = get_float_list(property, object, base)
    /\ UNCHANGED <<object, base, property>>
    /\ UNCHANGED query_vars

GetDoubleList ==
    /\ op' = "get_double_list"
    /\ result' = get_double_list(property, object, base)
    /\ UNCHANGED <<object, base, property>>
    /\ UNCHANGED query_vars

GetBytesList ==
    /\ op' = "get_bytes_list"
    /\ \E alloc_ok \in BOOLEAN :
          result' = get_bytes_list(property, object, base, alloc_ok)
    /\ UNCHANGED <<object, base, property>>
    /\ UNCHANGED query_vars

GetStaticRaw ==
    /\ op' = "get_static_raw"
    /\ result' = get_static_raw(property, object, base)
    /\ UNCHANGED <<object, base, property>>
    /\ UNCHANGED query_vars

Next ==
    \/ IsNull
    \/ GetInt
    \/ GetLong
    \/ GetFloat
    \/ GetDouble
    \/ GetBool
    \/ GetLength
    \/ GetString
    \/ GetBytes
    \/ GetIntList
    \/ GetLongList
    \/ GetFloatList
    \/ GetDoubleList
    \/ GetBytesList
    \/ GetStaticRaw

Spec == Init /\ [][Next]_vars

(***************************************************************************)
(* Reading the blob directly, as the format describes it (independent of   *)
(* the accessors above).                                                   *)
(***************************************************************************)
BytesAt(a, n) == [k \in 1..n |-> object[a + k]]

StaticSize(t) ==
    CASE t = "Bool" -> 1
      [] t \in {"Int", "Float"} -> 4
      [] t \in {"Long", "Double"} -> 8

\* the primitive of a static property lies inside the blob
StaticInBlob ==
    /\ property.data_type \in StaticTypes
    /\ property.offset + StaticSize(property.data_type) <= Len(object)

StaticBytes == BytesAt(property.offset, StaticSize(property.data_type))

\* the 8-byte header of a dynamic property lies inside the blob, at an
\* address the header read accepts
HeaderReadable ==
    /\ property.offset + 8 <= Len(object)
    /\ (base + property.offset) % 8 = 0

OffsetField == BytesAt(property.offset, 4)

LengthField == BytesAt(property.offset + 4, 4)

ZeroWord == <<0, 0, 0, 0>>

AnyNonZero(bytes) == \E k \in 1..Len(bytes) : bytes[k] # 0

\* the null sentinel of each static type, on the raw little-endian bytes
IsSentinel(t, bytes) ==
    CASE t = "Int"  -> bytes = <<0, 0, 0, 128>>
      [] t = "Long" -> bytes = <<0, 0, 0, 0, 0, 0, 0, 128>>
      [] t = "Float" ->
            /\ bytes[4] \in {127, 255}
            /\ bytes[3] >= 128
            /\ AnyNonZero(<<bytes[1], bytes[2], bytes[3] - 128>>)
      [] t = "Double" ->
            /\ bytes[8] \in {127, 255}
            /\ bytes[7] >= 240
            /\ AnyNonZero(<<bytes[1], bytes[2], bytes[3], bytes[4], bytes[5],
                            bytes[6], bytes[7] - 240>>)
      [] t = "Bool" -> bytes[1] \notin {0, 1}

\* C1: for a static property whose primitive lies inside the blob, is_null
\* returns true exactly when the raw little-endian primitive is the type's
\* null sentinel (Int i32::MIN, Long i64::MIN, Float/Double any NaN bit
\* pattern of either sign, Bool any byte other than 0 and 1).
C1_StaticIsNull ==
    (op = "is_null" /\ StaticInBlob) =>
        /\ result.kind = "ok"
        /\ result.value = IsSentinel(property.data_type, StaticBytes)

\* a negative NaN (sign bit set) in a Float property is reported null
C1_Witness ==
    /\ op = "is_null"
    /\ StaticInBlob
    /\ property.data_type = "Float"
    /\ StaticBytes[4] = 255
    /\ result = Ret(TRUE)

\* C2: for a dynamic property whose header is readable, is_null returns true
\* exactly when the four bytes of the header's offset field are zero,
\* whatever the length field holds.
C2_DynamicIsNull ==
    (op = "is_null" /\ is_dynamic(property.data_type) /\ HeaderReadable) =>
        /\ result.kind = "ok"
        /\ result.value = (OffsetField = ZeroWord)

\* a header with offset = 0 and length # 0 is reported null
C2_Witness ==
    /\ op = "is_null"
    /\ is_dynamic(property.data_type)
    /\ HeaderReadable
    /\ OffsetField = ZeroWord
    /\ LengthField # ZeroWord
    /\ result = Ret(TRUE)

(***************************************************************************)
(* The writer's side of the format: little-endian encodings of the values  *)
(* the getters return, and the values each element type can hold.         *)
(***************************************************************************)
Lo8(x) == x % 256

Hi8(x) == x \div 256

i32_to_le_bytes(v) ==
    LET w == IF v < 0 THEN (v + 2147483647) + 1 ELSE v
    IN  <<w % 256, (w \div 256) % 256, (w \div 65536) % 256,
          (w \div 16777216) + (IF v < 0 THEN 128 ELSE 0)>>

i64_to_le_bytes(v) ==
    LET h == IF v[1] < 0 THEN v[1] + 65536 ELSE v[1]
    IN  <<Lo8(v[4]), Hi8(v[4]), Lo8(v[3]), Hi8(v[3]),
          Lo8(v[2]), Hi8(v[2]), Lo8(h), Hi8(h)>>

f32_to_le_bytes(f) ==
    <<f.mant % 256, (f.mant \div 256) % 256,
      (f.mant \div 65536) + 128 * (f.exp % 2),
      (f.exp \div 2) + 128 * f.sign>>

f64_to_le_bytes(f) ==
    <<Lo8(f.mant[4]), Hi8(f.mant[4]), Lo8(f.mant[3]), Hi8(f.mant[3]),
      Lo8(f.mant[2]), Hi8(f.mant[2]),
      f.mant[1] + 16 * (f.exp % 16),
      (f.exp \div 16) + 128 * f.sign>>

Limb == 0..65535

IsValue(E, v) ==
    CASE E = "u8"  -> v \in 0..255
      [] E = "i32" -> v \in Int /\ v >= NULL_INT /\ v <= 2147483647
      [] E = "i64" -> /\ v[1] \in -32768..32767
                      /\ v[2] \in Limb /\ v[3] \in Limb /\ v[4] \in Limb
      [] E = "f32" -> v.sign \in {0, 1} /\ v.exp \in 0..255
                      /\ v.mant \in 0..8388607
      [] E = "f64" -> /\ v.sign \in {0, 1} /\ v.exp \in 0..2047
                      /\ v.mant[1] \in 0..15
                      /\ v.mant[2] \in Limb /\ v.mant[3] \in Limb
                      /\ v.mant[4] \in Limb

to_le_bytes(E, v) ==
    CASE E = "u8"  -> <<v>>
      [] E = "i32" -> i32_to_le_bytes(v)
      [] E = "i64" -> i64_to_le_bytes(v)
      [] E = "f32" -> f32_to_le_bytes(v)
      [] E = "f64" -> f64_to_le_bytes(v)

ElemSize(E) == IF E = "u8" THEN 1 ELSE IF E \in {"i32", "f32"} THEN 4 ELSE 8

\* v is the value whose little-endian encoding is `bytes`
Decodes(E, v, bytes) == IsValue(E, v) /\ to_le_bytes(E, v) = bytes

\* a u32 field below 2^16, and its value
IsSmall(field) == field[3] = 0 /\ field[4] = 0

SmallVal(field) == field[1] + 256 * field[2]

PrimitiveListGetters ==
    {"get_bytes", "get_int_list", "get_long_list", "get_float_list",
     "get_double_list"}

DeclaredType(getter) ==
    CASE getter = "get_int" -> "Int"
      [] getter = "get_long" -> "Long"
      [] getter = "get_float" -> "Float"
      [] getter = "get_double" -> "Double"
      [] getter = "get_bool" -> "Bool"
      [] getter = "get_string" -> "String"
      [] getter = "get_bytes" -> "Bytes"
      [] getter = "get_int_list" -> "IntList"
      [] getter = "get_long_list" -> "LongList"
      [] getter = "get_float_list" -> "FloatList"
      [] getter = "get_double_list" -> "DoubleList"
      [] getter = "get_bytes_list" -> "BytesList"

ElemOf(getter) ==
    CASE getter \in {"get_bytes", "get_string", "get_bytes_list"} -> "u8"
      [] getter = "get_int_list" -> "i32"
      [] getter = "get_long_list" -> "i64"
      [] getter = "get_float_list" -> "f32"
      [] getter = "get_double_list" -> "f64"

\* the payload the header names lies inside the blob and starts at an
\* address that is a multiple of the element size
PayloadWellFormed(E) ==
    /\ IsSmall(OffsetField)
    /\ IsSmall(LengthField)
    /\ SmallVal(OffsetField) + SmallVal(LengthField) * ElemSize(E) <= Len(object)
    /\ (base + SmallVal(OffsetField)) % ElemSize(E) = 0

\* C3: a primitive list getter on a well-formed blob returns absent for a
\* null header and otherwise a present sequence of exactly header.length
\* elements, element k being the little-endian decoding of the sizeof(E)
\* bytes at header.offset + k * sizeof(E).
C3_ListElements ==
    (/\ op \in PrimitiveListGetters
     /\ property.data_type = DeclaredType(op)
     /\ HeaderReadable) =>
        IF OffsetField = ZeroWord
        THEN result = Ret(None)
        ELSE PayloadWellFormed(ElemOf(op)) =>
               /\ result.kind = "ok"
               /\ result.value.some
               /\ Len(result.value.v) = SmallVal(LengthField)
               /\ \A k \in 0..(SmallVal(LengthField) - 1) :
                     Decodes(ElemOf(op), result.value.v[k + 1],
                             BytesAt(SmallVal(OffsetField) + k * ElemSize(ElemOf(op)),
                                     ElemSize(ElemOf(op))))

\* a list of two longs, the second one negative, is read back
C3_Witness ==
    /\ op = "get_long_list"
    /\ property.data_type = "LongList"
    /\ result.kind = "ok"
    /\ result.value.some
    /\ Len(result.value.v) = 2
    /\ result.value.v[1] = <<0, 6, 0, 5>>
    /\ result.value.v[2][1] < 0

\* C5 (as claimed): get_static_raw returns the bytes backing the value, 1 for
\* Bool, 4 for Int and Float, 8 for Long and Double.
C5_StaticRaw ==
    (op = "get_static_raw" /\ StaticInBlob) => result = Ret(StaticBytes)

\* C6: get_bool decodes byte 0 to Some(false), byte 1 to Some(true) and
\* every other byte to None.
C6_BoolTriState ==
    (/\ op = "get_bool"
     /\ property.data_type = "Bool"
     /\ property.offset < Len(object)) =>
        LET v == object[property.offset + 1]
        IN  /\ result.kind = "ok"
            /\ v = 0 => (result.value.some /\ result.value.v = FALSE)
            /\ v = 1 => (result.value.some /\ result.value.v = TRUE)
            /\ v \in 2..255 => ~result.value.some

\* byte 255 decodes to None
C6_Witness ==
    /\ op = "get_bool"
    /\ property.data_type = "Bool"
    /\ property.offset < Len(object)
    /\ object[property.offset + 1] = 255
    /\ result = Ret(None)

\* C7: get_int / get_long return the little-endian two's-complement value of
\* the 4 / 8 bytes at the property's offset for every bit pattern; the null
\* sentinel comes back as itself (i32::MIN) while is_null reports it null.
C7_IntLongRaw ==
    /\ (op = "get_int" /\ property.data_type = "Int" /\ StaticInBlob) =>
          /\ result.kind = "ok"
          /\ Decodes("i32", result.value, StaticBytes)
          /\ StaticBytes = <<0, 0, 0, 128>> => result.value = -2147483647 - 1
          /\ StaticBytes = <<1, 0, 0, 128>> => result.value = -2147483647
    /\ (op = "get_long" /\ property.data_type = "Long" /\ StaticInBlob) =>
          /\ result.kind = "ok"
          /\ Decodes("i64", result.value, StaticBytes)
    /\ (/\ op = "is_null" /\ property.data_type = "Int" /\ StaticInBlob
        /\ StaticBytes = <<0, 0, 0, 128>>) =>
          (result.kind = "ok" /\ result.value = TRUE)

\* the bytes of the Int null sentinel are returned as -2147483648
C7_Witness ==
    /\ op = "get_int"
    /\ property.data_type = "Int"
    /\ StaticInBlob
    /\ StaticBytes = <<0, 0, 0, 128>>
    /\ result.kind = "ok"
    /\ result.value < -2147483647

\* the inner DataPosition of entry i of a nested list, 8 bytes per entry
InnerOffsetField(i) == BytesAt(SmallVal(OffsetField) + i * 8, 4)

InnerLengthField(i) == BytesAt(SmallVal(OffsetField) + i * 8 + 4, 4)

\* the outer.length inner headers lie contiguously inside the blob at an
\* address the header read accepts, and every non-null one names a payload
\* inside the blob
NestedWellFormed ==
    /\ IsSmall(OffsetField)
    /\ IsSmall(LengthField)
    /\ SmallVal(OffsetField) + SmallVal(LengthField) * 8 <= Len(object)
    /\ (base + SmallVal(OffsetField)) % 8 = 0
    /\ \A i \in 0..(SmallVal(LengthField) - 1) :
          \/ InnerOffsetField(i) = ZeroWord
          \/ /\ IsSmall(InnerOffsetField(i))
             /\ IsSmall(InnerLengthField(i))
             /\ SmallVal(InnerOffsetField(i)) + SmallVal(InnerLengthField(i))
                   <= Len(object)

ExpectedEntry(i) ==
    IF InnerOffsetField(i) = ZeroWord
    THEN None
    ELSE Some(BytesAt(SmallVal(InnerOffsetField(i)),
                      SmallVal(InnerLengthField(i))))

\* C4 (as claimed): get_bytes_list returns absent for a null outer header and
\* otherwise exactly outer.length entries, entry i resolved from the inner
\* DataPosition at outer.offset + i * 8: absent when its offset is 0,
\* present (possibly empty) otherwise; the one other outcome allowed for is
\* the process running out of memory while the entries' Vec is reserved.
C4_BytesListEntries ==
    (/\ op = "get_bytes_list"
     /\ property.data_type = "BytesList"
     /\ HeaderReadable) =>
        IF OffsetField = ZeroWord
        THEN result = Ret(None)
        ELSE NestedWellFormed =>
               \/ /\ result = Abort
                  /\ SmallVal(LengthField) > 0
               \/ /\ result.kind = "ok"
                  /\ result.value.some
                  /\ Len(result.value.v) = SmallVal(LengthField)
                  /\ \A i \in 0..(SmallVal(LengthField) - 1) :
                        result.value.v[i + 1] = ExpectedEntry(i)

DynamicListGetters == PrimitiveListGetters \cup {"get_string", "get_bytes_list"}

\* a non-null header of length 0 whose offset names a byte of the blob
EmptyListHeader ==
    /\ HeaderReadable
    /\ OffsetField # ZeroWord
    /\ LengthField = ZeroWord
    /\ IsSmall(OffsetField)
    /\ SmallVal(OffsetField) < Len(object)

\* C8 (as claimed): a dynamic list getter on an empty list returns a present,
\* zero-length sequence whatever the alignment of the header's offset.
C8_EmptyListAnyAlignment ==
    (/\ op \in DynamicListGetters
     /\ property.data_type = DeclaredType(op)
     /\ EmptyListHeader) => result = Ret(Some(<<>>))

\* C8 (amended): a dynamic list getter on an empty list whose payload address
\* (base + header.offset) is a multiple of sizeof(E) returns a present,
\* zero-length sequence, never absent and never a failure.
C8_EmptyListAligned ==
    (/\ op \in DynamicListGetters
     /\ property.data_type = DeclaredType(op)
     /\ EmptyListHeader
     /\ (base + SmallVal(OffsetField)) % ElemSize(ElemOf(op)) = 0) =>
        result = Ret(Some(<<>>))

\* an empty list of doubles at an 8-aligned offset is present and empty
C8_Witness ==
    /\ op = "get_double_list"
    /\ property.data_type = "DoubleList"
    /\ EmptyListHeader
    /\ result = Ret(Some(<<>>))

\* C9: get_length on a dynamic property with a readable header returns None
\* when the offset field is 0 and Some(header.length) otherwise, whether or
\* not the header's offset and length address bytes inside the blob.
C9_GetLength ==
    (op = "get_length" /\ is_dynamic(property.data_type) /\ HeaderReadable) =>
        IF OffsetField = ZeroWord
        THEN result = Ret(None)
        ELSE /\ result.kind = "ok"
             /\ result.value.some
             /\ result.value.v[1] \in Limb
             /\ result.value.v[2] \in Limb
             /\ u32_to_le_bytes(result.value.v) = LengthField

\* the length is returned although the payload lies outside the blob
C9_Witness ==
    /\ op = "get_length"
    /\ HeaderReadable
    /\ IsSmall(OffsetField)
    /\ IsSmall(LengthField)
    /\ SmallVal(LengthField) > 0
    /\ SmallVal(OffsetField) + SmallVal(LengthField) > Len(object)
    /\ result = Ret(Some(<<0, SmallVal(LengthField)>>))

TypedGetters ==
    {"get_int", "get_long", "get_float", "get_double", "get_bool",
     "get_string", "get_bytes", "get_int_list", "get_long_list",
     "get_float_list", "get_double_list", "get_bytes_list"}

\* C10 (as claimed): a typed getter called on a property of another type,
\* and get_length called on a static property, abort instead of returning.
C10_MismatchAborts ==
    /\ (op \in TypedGetters /\ property.data_type # DeclaredType(op)) =>
          result.kind \in {"panic", "abort"}
    /\ (op = "get_length" /\ property.data_type \in StaticTypes) =>
          result.kind \in {"panic", "abort"}

\* the getters that resolve the property's own header through get_list
GetListGetters == PrimitiveListGetters \cup {"get_string"}

\* the size of one element of the payload the property's header names: the
\* payload of a BytesList is its run of inner DataPosition headers
PayloadElemSize(getter) ==
    IF getter = "get_bytes_list" THEN 8 ELSE ElemSize(ElemOf(getter))

\* the payload the header names lies inside the blob and starts at an
\* address that is a multiple of its element size
PayloadValid(getter) ==
    /\ IsSmall(OffsetField)
    /\ IsSmall(LengthField)
    /\ SmallVal(OffsetField) + SmallVal(LengthField) * PayloadElemSize(getter)
          <= Len(object)
    /\ (base + SmallVal(OffsetField)) % PayloadElemSize(getter) = 0

\* for the getters in G: a non-null header whose payload is not valid makes
\* the call fail, and a value is returned only for a payload inside the blob
InvalidPayloadFails(G) ==
    (/\ op \in G
     /\ property.data_type = DeclaredType(op)
     /\ property.offset + 8 <= Len(object)
     /\ OffsetField # ZeroWord) =>
        /\ ~PayloadValid(op) => result.kind \in {"panic", "abort"}
        /\ result.kind = "ok" =>
              /\ result.value.some
              /\ SmallVal(OffsetField)
                    + Len(result.value.v) * PayloadElemSize(op) <= Len(object)

\* C11 (as claimed): for a non-null header whose payload is not valid (it
\* runs past the end of the blob, or its start address base + header.offset
\* is not a multiple of sizeof(E)), every dynamic getter fails and returns
\* no value: a value is returned only for a payload that lies inside the
\* blob.
C11_InvalidPayloadFails == InvalidPayloadFails(DynamicListGetters)

\* the same holds of the getters that go through get_list, that is of every
\* dynamic getter but get_bytes_list
GetListPayloadChecked == InvalidPayloadFails(GetListGetters)

\* get_bytes_list on an empty outer list whose offset lies outside the blob
\* returns a present, empty sequence
BytesListEmptyUnchecked ==
    /\ op = "get_bytes_list"
    /\ property.data_type = "BytesList"
    /\ HeaderReadable
    /\ OffsetField # ZeroWord
    /\ LengthField = ZeroWord
    /\ ~PayloadValid(op)
    /\ result = Ret(Some(<<>>))

\* a list of ints that lies inside the blob but starts at an address that
\* is no multiple of 4 is refused
GetListMisalignedRefused ==
    /\ op = "get_int_list"
    /\ property.data_type = "IntList"
    /\ HeaderReadable
    /\ IsSmall(OffsetField)
    /\ IsSmall(LengthField)
    /\ SmallVal(LengthField) > 0
    /\ SmallVal(OffsetField) + SmallVal(LengthField) * 4 <= Len(object)
    /\ (base + SmallVal(OffsetField)) % 4 # 0
    /\ result.kind = "panic"

\* a payload that runs past the end of the blob is refused
GetListOutOfBlobRefused ==
    /\ op = "get_long_list"
    /\ property.data_type = "LongList"
    /\ HeaderReadable
    /\ IsSmall(OffsetField)
    /\ IsSmall(LengthField)
    /\ SmallVal(OffsetField) < Len(object)
    /\ (base + SmallVal(OffsetField)) % 8 = 0
    /\ SmallVal(OffsetField) + SmallVal(LengthField) * 8 > Len(object)
    /\ result.kind = "panic"

\* the accessors that read the DataPosition header of a dynamic property
HeaderReaders == {"get_length", "is_null"} \cup DynamicListGetters

\* C12 (as claimed): on a blob that starts at a multiple of 8, the header of
\* a dynamic property at any offset that is a multiple of 4 (with the 8
\* header bytes inside the blob) is read without an alignment failure:
\* get_length and is_null return, and every dynamic getter returns absent
\* for a null header.
C12_HeaderAlignedTo4 ==
    (/\ op \in HeaderReaders
     /\ is_dynamic(property.data_type)
     /\ op \in DynamicListGetters => property.data_type = DeclaredType(op)
     /\ base % 8 = 0
     /\ property.offset % 4 = 0
     /\ property.offset + 8 <= Len(object)) =>
        /\ op \in {"get_length", "is_null"} => result.kind = "ok"
        /\ OffsetField = ZeroWord => result.kind = "ok"

(***************************************************************************)
(* isar_q_delete_first / isar_q_delete_first_async                         *)
(*                                                                         *)
(* The entry point resets the caller's flag and hands delete_while a       *)
(* predicate over that flag.  delete_while belongs to the query executor:  *)
(* it may invoke the predicate any number of times (at most                *)
(* MaxInvocations here) and end with Ok or Err.  The async entry point     *)
(* resets the flag at once and queues the rest as a job of the             *)
(* transaction's executor.                                                 *)
(*                                                                         *)
(* The flag is a pointer the caller passes across the C ABI, and nothing   *)
(* in the entry points keeps it to one call at a time: the same flag can   *)
(* be handed to a later call, to a call made while an earlier one is       *)
(* still queued or running, and to isar_delete / isar_delete_async.  The   *)
(* variables pc, answers, variant, outcome, deleted_before, deleted_after  *)
(* follow the latest delete-first call; of the earlier calls still in      *)
(* flight only what they do to the flag is kept.                           *)
(*                                                                         *)
(* Each closure holds a &mut bool to the flag, a type that promises the    *)
(* flag is the call's alone.  Once someone else writes the flag during the *)
(* call two exclusive references alias, which is undefined behaviour: an   *)
(* unoptimised build reads the byte in memory, an optimised build may go   *)
(* by what the call itself last left in the flag or by a load it made      *)
(* earlier in the call, so the closure may take the flag for either        *)
(* value; it writes the flag only when it approves.                        *)
(***************************************************************************)
MaxInvocations == 4

\* earlier delete-first calls in flight at once, queued isar_delete_async jobs
MaxEarlier == 2

MaxDeleteJobs == 2

\* faulty variant: the predicate never records that it has approved
delete_first_predicate_no_latch(d) == [deleted |-> d, answer |-> ~d]

\* the closure |_, _| { if !*deleted { *deleted = true; true } else { false } }
delete_first_predicate(d) ==
    IF ~d THEN [deleted |-> TRUE, answer |-> TRUE]
    ELSE [deleted |-> d, answer |-> FALSE]

\* what the closure may take the flag to hold: the byte in memory while the
\* flag is the call's alone, either value once its &mut bool is aliased
closure_reads(mem, aliased) == IF aliased THEN BOOLEAN ELSE {mem}

\* the flag after the closure has run on the value d it took the flag to
\* hold: it stores only where it approves
closure_writes(mem, d, r) == IF r.deleted # d THEN r.deleted ELSE mem

\* collection.delete(txn, oid): Ok(true), Ok(false) or Err
DeleteResults == {"ok_true", "ok_false", "err"}

\* no accessor is involved
AccessorIdle ==
    /\ object = <<>>
    /\ base = 0
    /\ property = [data_type |-> "Bool", offset |-> 0]
    /\ op = "none"
    /\ result = NoResult

InitDeleteFirst ==
    /\ AccessorIdle
    /\ deleted \in BOOLEAN
    /\ deleted_before = deleted
    /\ deleted_after = deleted
    /\ answers = <<>>
    /\ pc = "idle"
    /\ variant = "none"
    /\ outcome = "none"
    /\ earlier = 0
    /\ delete_jobs = 0
    /\ exclusive = TRUE

\* the call is queued or running
InFlight == pc \in {"queued", "running"}

isar_q_delete_first ==
    /\ InFlight => earlier < MaxEarlier
    /\ earlier' = IF InFlight THEN earlier + 1 ELSE earlier
    /\ deleted_before' = deleted
    /\ deleted' = FALSE
    /\ deleted_after' = FALSE
    /\ answers' = <<>>
    /\ variant' = "sync"
    /\ outcome' = "none"
    /\ pc' = "running"
    /\ exclusive' = TRUE
    /\ UNCHANGED delete_jobs
    /\ UNCHANGED accessor_vars

isar_q_delete_first_async ==
    /\ InFlight => earlier < MaxEarlier
    /\ earlier' = IF InFlight THEN earlier + 1 ELSE earlier
    /\ deleted_before' = deleted
    /\ deleted' = FALSE
    /\ deleted_after' = FALSE
    /\ answers' = <<>>
    /\ variant' = "async"
    /\ outcome' = "none"
    /\ pc' = "queued"
    /\ exclusive' = TRUE
    /\ UNCHANGED delete_jobs
    /\ UNCHANGED accessor_vars

\* the executor starts the queued job
ExecJob ==
    /\ pc = "queued"
    /\ pc' = "running"
    /\ UNCHANGED <<deleted, deleted_before, answers, variant, outcome>>
    /\ UNCHANGED <<deleted_after, earlier, delete_jobs, exclusive>>
    /\ UNCHANGED accessor_vars

\* delete_while asks the predicate about one more object
InvokePredicate ==
    /\ pc = "running"
    /\ Len(answers) < MaxInvocations
    /\ \E d \in closure_reads(deleted, ~exclusive) :
          LET r == delete_first_predicate(d)
          IN  /\ deleted' = closure_writes(deleted, d, r)
              /\ answers' = Append(answers, r.answer)
    /\ UNCHANGED <<deleted_before, pc, variant, outcome>>
    /\ UNCHANGED <<deleted_after, earlier, delete_jobs, exclusive>>
    /\ UNCHANGED accessor_vars

\* delete_while returns Ok or Err, which ends the call
DeleteWhileReturns ==
    /\ pc = "running"
    /\ outcome' \in {"ok", "err"}
    /\ pc' = "done"
    /\ deleted_after' = deleted
    /\ UNCHANGED <<deleted, deleted_before, answers, variant>>
    /\ UNCHANGED <<earlier, delete_jobs, exclusive>>
    /\ UNCHANGED accessor_vars

\* the delete_while of an earlier call asks its predicate, which is a
\* closure over the same flag; the later call has written the flag since,
\* so the earlier call's &mut bool is aliased
EarlierInvokePredicate ==
    /\ earlier > 0
    /\ \E d \in closure_reads(deleted, TRUE) :
          LET r == delete_first_predicate(d)
          IN  /\ deleted' = closure_writes(deleted, d, r)
              /\ exclusive' = (exclusive /\ ~(InFlight /\ r.deleted # d))
    /\ UNCHANGED <<deleted_before, answers, pc, variant, outcome>>
    /\ UNCHANGED <<deleted_after, earlier, delete_jobs>>
    /\ UNCHANGED accessor_vars

\* the delete_while of an earlier call returns
EarlierReturns ==
    /\ earlier > 0
    /\ earlier' = earlier - 1
    /\ UNCHANGED <<deleted, deleted_before, answers, pc, variant, outcome>>
    /\ UNCHANGED <<deleted_after, delete_jobs, exclusive>>
    /\ UNCHANGED accessor_vars

\* *deleted = collection.delete(txn, oid)?  -- an Err leaves the flag alone
isar_delete ==
    /\ \E r \in DeleteResults :
          /\ deleted' = IF r = "err" THEN deleted ELSE (r = "ok_true")
          /\ exclusive' = (exclusive /\ ~(InFlight /\ r # "err"))
    /\ UNCHANGED <<deleted_before, answers, pc, variant, outcome>>
    /\ UNCHANGED <<deleted_after, earlier, delete_jobs>>
    /\ UNCHANGED accessor_vars

\* queues the job that will write the flag
isar_delete_async ==
    /\ delete_jobs < MaxDeleteJobs
    /\ delete_jobs' = delete_jobs + 1
    /\ UNCHANGED <<deleted, deleted_before, answers, pc, variant, outcome>>
    /\ UNCHANGED <<deleted_after, earlier, exclusive>>
    /\ UNCHANGED accessor_vars

\* the executor runs a queued isar_delete_async job
ExecDeleteJob ==
    /\ delete_jobs > 0
    /\ delete_jobs' = delete_jobs - 1
    /\ \E r \in DeleteResults :
          /\ deleted' = IF r = "err" THEN deleted ELSE (r = "ok_true")
          /\ exclusive' = (exclusive /\ ~(InFlight /\ r # "err"))
    /\ UNCHANGED <<deleted_before, answers, pc, variant, outcome>>
    /\ UNCHANGED <<deleted_after, earlier>>
    /\ UNCHANGED accessor_vars

NextDeleteFirst ==
    \/ isar_q_delete_first
    \/ isar_q_delete_first_async
    \/ ExecJob
    \/ InvokePredicate
    \/ DeleteWhileReturns
    \/ EarlierInvokePredicate
    \/ EarlierReturns
    \/ isar_delete
    \/ isar_delete_async
    \/ ExecDeleteJob

SpecDeleteFirst == InitDeleteFirst /\ [][NextDeleteFirst]_vars

\* the flag is false before the query runs, the predicate answers true on
\* its first invocation only, at most one object is approved, and the call
\* leaves the flag true exactly when the predicate was invoked at least once
DeleteFirstContract ==
    /\ pc = "queued" => (deleted = FALSE /\ answers = <<>>)
    /\ pc = "running" => (Len(answers) = 0 => deleted = FALSE)
    /\ pc \in {"running", "done"} =>
          /\ \A k \in 1..Len(answers) : answers[k] = (k = 1)
          /\ Cardinality({k \in 1..Len(answers) : answers[k]}) <= 1
    /\ pc = "done" => (deleted_after = (Len(answers) >= 1))

\* C13: within one delete-first call (its flag being the call's alone, as
\* the parameter type &mut bool requires of the caller) the flag is false
\* before the query runs, the predicate answers true on its first
\* invocation and false on every later one, so at most one object is
\* approved, and once the call has ended the flag is true exactly when the
\* predicate was invoked at least once, whatever the flag held before the
\* call.
C13_DeleteFirst == exclusive => DeleteFirstContract

\* a call that started with the flag set and asked the predicate three
\* times has ended with the flag set and one approval
C13_Witness ==
    /\ pc = "done"
    /\ variant = "async"
    /\ exclusive
    /\ deleted_before = TRUE
    /\ Len(answers) = 3
    /\ answers = <<TRUE, FALSE, FALSE>>
    /\ deleted_after = TRUE

\* a call that started with the flag set and never asked the predicate has
\* ended with the flag cleared
C13_WitnessNoInvocation ==
    /\ pc = "done"
    /\ exclusive
    /\ deleted_before = TRUE
    /\ answers = <<>>
    /\ deleted_after = FALSE

====
